---------------------------- MODULE Spec2Model ----------------------------
(***************************************************************************)
(* Model of the transcriber application (src/app.py): the artifact         *)
(* resolver TranscriberApp.download_audio, the three transcript writers of *)
(* TranscriberApp.save_transcript and the job flow of main().              *)
(*                                                                         *)
(* Text is a sequence of one-character strings; a literal of the source    *)
(* that is never inspected character by character (a header label, an      *)
(* extension of an output file) is a single token of such a sequence.      *)
(* Times of segments are integers in units of half a second.               *)
(***************************************************************************)
EXTENDS Integers, Sequences, FiniteSets, TLC

VARIABLES
    pc,               \* position of the script run of main()
    input_method,     \* "url" | "upload"            (radio, line 259)
    audio_quality,    \* "original" | "aac"          (selectbox, line 215)
    keep_audio,       \* checkbox, line 241
    url,              \* text input, line 270
    uploaded_name,    \* uploaded_file.name, line 293
    downloads,        \* the downloads directory: file name -> creation time
    remote,           \* what the retrieval tool will answer: title, file name, file written
    undeletable,      \* the file system refuses to unlink the audio file
    tmp,              \* temporary upload copies on disk (set of names)
    downloaded_file,  \* ydl.prepare_filename(info), line 59
    audio_file,       \* the path the job operates on, or None
    video_title,
    source_url,
    result,           \* the engine's result, or None
    now,              \* the wall clock, seconds of the model's day
    timestamp,        \* datetime.now() of line 92, or -1
    txt_file, srt_file, lyrics_file,
    transcripts,      \* the transcripts directory: file name -> lines
    i,                \* loop index of line 129 (0-based, as in the source)
    current_paragraph,
    session,          \* st.session_state
    err               \* the exception main() reports, or "none"

vars == << pc, input_method, audio_quality, keep_audio, url, uploaded_name,
           downloads, remote, undeletable, tmp, downloaded_file, audio_file,
           video_title, source_url, result, now, timestamp, txt_file, srt_file,
           lyrics_file, transcripts, i, current_paragraph, session, err >>

\* An optional value is << >> (None) or << v >>; a text not yet assigned is << >>.
Some(v) == << v >>

-----------------------------------------------------------------------------
(* Bounds of the model *)

\* files already in the downloads directory when the job starts
MaxOld == 1
\* creation times are 1..MaxCtime
MaxCtime == 2
\* longest segment sequence
MaxSegs == 8
\* longest varying tail of a title
MaxTail == 3
\* longest segment sequence of a whole job
JobSegs == 2

-----------------------------------------------------------------------------
(* str methods *)

UpperCase == << "A","B","C","D","E","F","G","H","I","J","K","L","M",
                "N","O","P","Q","R","S","T","U","V","W","X","Y","Z" >>
LowerCase == << "a","b","c","d","e","f","g","h","i","j","k","l","m",
                "n","o","p","q","r","s","t","u","v","w","x","y","z" >>
Digits == << "0","1","2","3","4","5","6","7","8","9" >>

Range(s) == { s[k] : k \in DOMAIN s }

\* str.lower(), one character
LowerChar(c) ==
    IF \E k \in DOMAIN UpperCase : UpperCase[k] = c
    THEN LowerCase[CHOOSE k \in DOMAIN UpperCase : UpperCase[k] = c]
    ELSE c

\* str.lower()
Lower(s) == [ k \in DOMAIN s |-> LowerChar(s[k]) ]

\* a letter of another script: str.isalnum() holds of it too
OtherLetters == { "é" }

AlnumChars == Range(UpperCase) \cup Range(LowerCase) \cup Range(Digits) \cup OtherLetters

\* str.isalnum(), one character
IsAlnum(c) == c \in AlnumChars

IsSpace(c) == c = " "

\* str.rstrip()
RECURSIVE RStrip(_)
RStrip(s) ==
    IF s # << >> /\ IsSpace(s[Len(s)]) THEN RStrip(SubSeq(s, 1, Len(s) - 1)) ELSE s

\* str.lstrip()
RECURSIVE LStrip(_)
LStrip(s) ==
    IF s # << >> /\ IsSpace(s[1]) THEN LStrip(Tail(s)) ELSE s

\* str.strip()
Strip(s) == LStrip(RStrip(s))

\* s[:n]
Take(s, n) == SubSeq(s, 1, IF Len(s) < n THEN Len(s) ELSE n)

\* str.startswith(prefix)
StartsWith(s, prefix) ==
    Len(prefix) <= Len(s) /\ SubSeq(s, 1, Len(prefix)) = prefix

-----------------------------------------------------------------------------
(* pathlib.PurePath: name -> suffix, stem, with_suffix *)

\* str.rfind('.'), 1-based; 0 when there is none
RFindDot(name) ==
    IF \E k \in DOMAIN name : name[k] = "."
    THEN CHOOSE k \in DOMAIN name :
            name[k] = "." /\ \A j \in DOMAIN name : j > k => name[j] # "."
    ELSE 0

\* a dot that is neither the first nor the last character starts the suffix
HasSuffix(name) == 1 < RFindDot(name) /\ RFindDot(name) < Len(name)

Suffix(name) ==
    IF HasSuffix(name) THEN SubSeq(name, RFindDot(name), Len(name)) ELSE << >>

Stem(name) ==
    IF HasSuffix(name) THEN SubSeq(name, 1, RFindDot(name) - 1) ELSE name

WithSuffix(name, suffix) == Stem(name) \o suffix

-----------------------------------------------------------------------------
(* glob.glob(downloads_dir / pattern): fnmatch of the entries of the       *)
(* directory.  '*', '?' and '[seq]' / '[!seq]' are the pattern's special   *)
(* characters; no name of the model holds '-', so a class has no ranges.   *)

\* index of the ']' closing the class opened at p[k], or 0 (then '[' is literal)
RECURSIVE ScanClass(_, _)
ScanClass(p, j) ==
    IF j > Len(p) THEN 0
    ELSE IF p[j] = "]" THEN j
    ELSE ScanClass(p, j + 1)

ClassEnd(p, k) ==
    LET j1 == IF k + 1 <= Len(p) /\ p[k + 1] = "!" THEN k + 2 ELSE k + 1
        j2 == IF j1 <= Len(p) /\ p[j1] = "]" THEN j1 + 1 ELSE j1
    IN  ScanClass(p, j2)

ClassMatches(p, k, c) ==
    LET e     == ClassEnd(p, k)
        neg   == p[k + 1] = "!"
        first == IF neg THEN k + 2 ELSE k + 1
        chars == { p[j] : j \in first .. (e - 1) }
    IN  IF neg THEN c \notin chars ELSE c \in chars

RECURSIVE FnMatchFrom(_, _, _, _)
FnMatchFrom(p, k, s, j) ==
    IF k > Len(p) THEN j > Len(s)
    ELSE IF p[k] = "*" THEN
        \E n \in j .. (Len(s) + 1) : FnMatchFrom(p, k + 1, s, n)
    ELSE IF p[k] = "?" THEN
        j <= Len(s) /\ FnMatchFrom(p, k + 1, s, j + 1)
    ELSE IF p[k] = "[" /\ ClassEnd(p, k) # 0 THEN
        /\ j <= Len(s)
        /\ ClassMatches(p, k, s[j])
        /\ FnMatchFrom(p, ClassEnd(p, k) + 1, s, j + 1)
    ELSE
        j <= Len(s) /\ s[j] = p[k] /\ FnMatchFrom(p, k + 1, s, j + 1)

FnMatch(name, pattern) == FnMatchFrom(pattern, 1, name, 1)

IsHidden(name) == name # << >> /\ name[1] = "."

\* the entries of directory dir that the pattern selects
Glob(dir, pattern) ==
    { n \in DOMAIN dir : /\ (IsHidden(pattern) \/ ~IsHidden(n))
                         /\ FnMatch(n, pattern) }


-----------------------------------------------------------------------------
(* File names of the model *)

WebmExt == << ".", "w", "e", "b", "m" >>
M4aExt  == << ".", "m", "4", "a" >>
Mp3Ext  == << ".", "m", "p", "3" >>

a_webm   == << "a" >> \o WebmExt
a_m4a    == << "a" >> \o M4aExt
a_mp3    == << "a" >> \o Mp3Ext
a_MP3    == << "a", ".", "M", "P", "3" >>
a_jpg    == << "a", ".", "j", "p", "g" >>
a_b_mp3  == << "a", ".", "b" >> \o Mp3Ext
b_mp3    == << "b" >> \o Mp3Ext
br_webm  == << "[", "a", "]" >> \o WebmExt
br_mp3   == << "[", "a", "]" >> \o Mp3Ext

\* what ydl.prepare_filename(info) may name
ExpectedNames == { a_webm, a_m4a, br_webm }
\* what the downloads directory may hold
DirNames == { a_webm, a_m4a, a_mp3, a_MP3, a_jpg, a_b_mp3, b_mp3, br_webm, br_mp3 }

\* audio_exts, line 72
AudioExts ==
    { Mp3Ext, M4aExt, << ".", "o", "p", "u", "s" >>, WebmExt,
      << ".", "o", "g", "g" >>, << ".", "w", "a", "v" >>,
      << ".", "f", "l", "a", "c" >>, << ".", "a", "a", "c" >>,
      << ".", "m", "p", "4" >>, << ".", "m", "k", "v" >> }

-----------------------------------------------------------------------------
(* TranscriberApp.download_audio: resolution of the downloaded file *)

DownloadsPath(name) == [ dir |-> "downloads", name |-> name ]
TmpPath(name) == [ dir |-> "tmp", name |-> name ]

\* Path.exists()
Exists(path, dls, tmps) ==
    IF path.dir = "downloads" THEN path.name \in DOMAIN dls ELSE path.name \in tmps

\* the directory once the retrieval tool has written its file
AfterRetrieval(dir, written) ==
    IF written = << >> THEN dir
    ELSE [ n \in DOMAIN dir \cup { written[1].name } |->
             IF n = written[1].name THEN written[1].ctime ELSE dir[n] ]

\* Candidate with the codec's name taken for the container's extension
CandidateAacSuffix(file, quality) ==
    IF quality = "aac" THEN WithSuffix(file, << ".", "a", "a", "c" >>) ELSE file

\* lines 61-64
Candidate(file, quality) ==
    IF quality = "aac" THEN WithSuffix(file, M4aExt) ELSE file

\* lines 69-73
AudioFiles(dir, file) ==
    { f \in Glob(dir, Stem(file) \o << ".", "*" >>) : Lower(Suffix(f)) \in AudioExts }

\* max(audio_files, key=os.path.getctime): any file of the latest creation time
\* (the order of glob's list decides among equals)
MaxByCtime(dir, files) ==
    { f \in files : \A g \in files : dir[g] <= dir[f] }

\* lines 61-77: the names download_audio may return
ResolveAudioFile(dir, file, quality) ==
    IF Candidate(file, quality) \in DOMAIN dir
    THEN { Candidate(file, quality) }
    ELSE IF AudioFiles(dir, file) # { }
         THEN MaxByCtime(dir, AudioFiles(dir, file))
         ELSE { Candidate(file, quality) }


-----------------------------------------------------------------------------
(* Program constants *)

\* title[:50], line 94
TitleLimit == 50
\* "=" * 80, line 107
SepWidth == 80
\* pause_duration > 1.5, line 137: 1.5 s in half seconds
PauseLimit == 3
\* len(current_paragraph) >= 6, line 139
ParagraphMax == 6

-----------------------------------------------------------------------------
(* Number and time formatting *)

RECURSIVE Decimal(_)
Decimal(n) ==
    IF n < 10 THEN << Digits[n + 1] >>
    ELSE Decimal(n \div 10) \o << Digits[(n % 10) + 1] >>

\* f"{n:02d}"
Pad2(n) == IF n < 10 THEN << "0" >> \o Decimal(n) ELSE Decimal(n)

\* TranscriberApp._format_timestamp; t is in half seconds
FormatTimestamp(t) ==
    LET hours   == t \div 7200
        minutes == (t % 7200) \div 120
        secs    == (t % 120) \div 2
    IN  Pad2(hours) \o << ":" >> \o Pad2(minutes) \o << ":" >> \o Pad2(secs)

\* strftime("%Y%m%d_%H%M%S") of second t of the model's day
TimestampStr(t) ==
    << "2", "0", "2", "4", "0", "1", "0", "1", "_" >>
        \o Pad2(t \div 3600) \o Pad2((t % 3600) \div 60) \o Pad2(t % 60)

\* strftime('%Y-%m-%d %H:%M:%S') of second t of the model's day
DateStr(t) ==
    << "2", "0", "2", "4", "-", "0", "1", "-", "0", "1", " " >>
        \o Pad2(t \div 3600) \o << ":" >> \o Pad2((t % 3600) \div 60)
        \o << ":" >> \o Pad2(t % 60)

-----------------------------------------------------------------------------
(* TranscriberApp.save_transcript: names and bodies *)

\* c.isalnum() or c in (' ', '-', '_'), line 93
IsSafeChar(c) == IsAlnum(c) \/ c \in { " ", "-", "_" }

\* SafeTitle that cuts before it strips
SafeTitleCutFirst(title) == RStrip(Take(SelectSeq(title, IsSafeChar), TitleLimit))

\* lines 93-94
SafeTitle(title) == Take(RStrip(SelectSeq(title, IsSafeChar)), TitleLimit)

\* lines 97-99
TxtName(title, t) ==
    SafeTitle(title) \o << "_" >> \o TimestampStr(t) \o << ".txt" >>
SrtName(title, t) ==
    SafeTitle(title) \o << "_" >> \o TimestampStr(t) \o << "_timestamps.txt" >>
LyricsName(title, t) ==
    SafeTitle(title) \o << "_" >> \o TimestampStr(t) \o << "_lyrics.txt" >>

Separator == [ k \in 1 .. SepWidth |-> "=" ]

\* lines 103-108; date is the second datetime.now(), line 105
TxtLines(title, source, date, res) ==
    << << "Transcription of: " >> \o title,
       << "Source: " >> \o source,
       << "Date: " >> \o DateStr(date),
       << "Language: " >> \o res.language,
       Separator,
       << >>,
       Strip(res.text) >>

\* lines 112-114
SrtHeader(title, source) ==
    << << "Transcription with timestamps of: " >> \o title,
       << "Source: " >> \o source,
       Separator,
       << >> >>

\* lines 117-120
SrtBlock(segment) ==
    << << "[" >> \o FormatTimestamp(segment.start) \o << " --> " >>
         \o FormatTimestamp(segment.end) \o << "]" >>,
       Strip(segment.text),
       << >> >>

RECURSIVE SrtBlocks(_)
SrtBlocks(segments) ==
    IF segments = << >> THEN << >>
    ELSE SrtBlock(Head(segments)) \o SrtBlocks(Tail(segments))

SrtLines(title, source, res) == SrtHeader(title, source) \o SrtBlocks(res.segments)

\* lines 124-126
LyricsHeader(title, source) ==
    << << "Transcription of: " >> \o title,
       << "Source: " >> \o source,
       Separator,
       << >> >>

\* IsLongPause with >= for >
IsLongPauseInclusive(segments, k) ==
    /\ k + 1 < Len(segments)
    /\ segments[k + 2].start - segments[k + 1].end >= PauseLimit

\* lines 133-137; k is the 0-based index of the current segment
IsLongPause(segments, k) ==
    /\ k + 1 < Len(segments)
    /\ segments[k + 2].start - segments[k + 1].end > PauseLimit

\* IsParagraphFull with > for >=
IsParagraphFullLate(paragraph) == Len(paragraph) > ParagraphMax

\* line 139
IsParagraphFull(paragraph) == Len(paragraph) >= ParagraphMax

\* IsLastSegment one past the end
IsLastSegmentOffByOne(segments, k) == k = Len(segments)

\* line 140
IsLastSegment(segments, k) == k = Len(segments) - 1

\* line 142
MustFlush(segments, k, paragraph) ==
    IsLongPause(segments, k) \/ IsParagraphFull(paragraph) \/ IsLastSegment(segments, k)

\* lines 143-144: '\n'.join(paragraph) + "\n\n"
ParagraphLines(paragraph) == paragraph \o << << >> >>

\* open(name, 'w') ... write: the directory with the file holding lines
Put(dir, name, lines) ==
    [ n \in DOMAIN dir \cup { name } |-> IF n = name THEN lines ELSE dir[n] ]

\* Path.unlink()
Unlink(dir, name) == [ n \in DOMAIN dir \ { name } |-> dir[n] ]


-----------------------------------------------------------------------------
(* Inputs *)

Http     == << "h", "t", "t", "p" >>
HttpsUrl == Http \o << "s", ":", "/", "/", "x" >>
WwwUrl   == << "w", "w", "w", ".", "x" >>
LocalFilePrefix == << "L", "o", "c", "a", "l", " ", "f", "i", "l", "e", ":", " " >>

\* the directories of at most MaxOld files named in names
Dirs(names) ==
    UNION { [ S -> 1 .. MaxCtime ] :
              S \in { T \in SUBSET names : Cardinality(T) <= MaxOld } }

\* a file written by the retrieval tool
Written(names) == { << >> } \cup { Some(w) : w \in [ name : names, ctime : 1 .. MaxCtime ] }

Gaps == { 0, PauseLimit, PauseLimit + 1 }

TextOf(k) ==
    IF k % 2 = 1 THEN << " ", LowerCase[k] >> ELSE << LowerCase[k], " " >>

RECURSIVE StartOf(_, _)
StartOf(gaps, k) == IF k = 1 THEN 0 ELSE StartOf(gaps, k - 1) + 2 + gaps[k - 1]

\* segments of one second each, separated by gaps
SegsOf(gaps) ==
    [ k \in 1 .. (Len(gaps) + 1) |->
        [ start |-> StartOf(gaps, k), end |-> StartOf(gaps, k) + 2, text |-> TextOf(k) ] ]

SegSeqs(n) ==
    { << >> } \cup UNION { { SegsOf(g) : g \in [ 1 .. (m - 1) -> Gaps ] } : m \in 1 .. n }

Results(n) ==
    [ language : { << "e", "n" >> }, text : { << " ", "h", "i", " " >> },
      segments : SegSeqs(n) ]

TitleChars == { "b", "1", " ", "-", "_", ":", "é" }

RECURSIVE Tails(_)
Tails(n) ==
    IF n = 0 THEN { << >> }
    ELSE Tails(n - 1) \cup
         { Append(t, c) : t \in { u \in Tails(n - 1) : Len(u) = n - 1 }, c \in TitleChars }

\* titles around the limit of 50 characters, and short ones
Titles ==
    { [ k \in 1 .. p |-> "a" ] \o t :
        p \in { 0 } \cup ((TitleLimit - MaxTail) .. TitleLimit), t \in Tails(MaxTail) }

JobTitles == { << "a", ":", " ", "b" >> }
Times == { 3661, 86398 }

-----------------------------------------------------------------------------
(* Initial states *)

Fresh ==
    /\ tmp = { }
    /\ downloaded_file = << >>
    /\ audio_file = << >>
    /\ video_title = << >>
    /\ source_url = << >>
    /\ result = << >>
    /\ timestamp = -1
    /\ txt_file = << >> /\ srt_file = << >> /\ lyrics_file = << >>
    /\ transcripts = << >>
    /\ i = 0
    /\ current_paragraph = << >>
    /\ session = << >>
    /\ err = "none"

\* main() is entered with the widgets' values and the disk as they are
Init ==
    /\ pc = "start"
    /\ input_method \in { "url", "upload" }
    /\ keep_audio \in BOOLEAN
    /\ undeletable \in BOOLEAN
    /\ now = 0
    /\ IF input_method = "url"
       THEN /\ audio_quality \in { "original", "aac" }
            /\ url \in { << >>, HttpsUrl, WwwUrl }
            /\ uploaded_name = << >>
            /\ downloads \in Dirs({ a_mp3 })
            /\ remote \in [ title : JobTitles, filename : { a_webm },
                            written : Written({ a_webm, a_m4a }) ]
       ELSE /\ audio_quality = "original"
            /\ url = << >>
            /\ uploaded_name \in { << >>, a_mp3 }
            /\ downloads = << >>
            /\ remote = [ title |-> << >>, filename |-> << >>, written |-> << >> ]
    /\ Fresh

\* the download step with every directory and every expected name of the model
InitResolve ==
    /\ pc = "start"
    /\ input_method = "url"
    /\ keep_audio = FALSE
    /\ undeletable = FALSE
    /\ now = 0
    /\ audio_quality \in { "original", "aac" }
    /\ url = HttpsUrl
    /\ uploaded_name = << >>
    /\ downloads \in Dirs(DirNames)
    /\ remote \in [ title : JobTitles, filename : ExpectedNames,
                    written : Written(DirNames) ]
    /\ Fresh

-----------------------------------------------------------------------------
(* main(): the URL branch, lines 269-290 *)

\* lines 276-279: a URL is given, the button is pressed, the model loads
StartUrl ==
    /\ pc = "start"
    /\ input_method = "url"
    /\ url # << >>
    /\ pc' = "download"
    /\ UNCHANGED << input_method, audio_quality, keep_audio, url, uploaded_name,
                    downloads, remote, undeletable, tmp, downloaded_file,
                    audio_file, video_title, source_url, result, now, timestamp,
                    txt_file, srt_file, lyrics_file, transcripts, i,
                    current_paragraph, session, err >>

\* lines 283-286: download_audio (lines 37-77) returns
Download ==
    /\ pc = "download"
    /\ downloads' = AfterRetrieval(downloads, remote.written)
    /\ downloaded_file' = remote.filename
    /\ \E f \in ResolveAudioFile(AfterRetrieval(downloads, remote.written),
                                 remote.filename, audio_quality) :
          audio_file' = Some(DownloadsPath(f))
    /\ video_title' = remote.title
    /\ source_url' = url
    /\ pc' = "check"
    /\ UNCHANGED << input_method, audio_quality, keep_audio, url, uploaded_name,
                    remote, undeletable, tmp, result, now, timestamp, txt_file,
                    srt_file, lyrics_file, transcripts, i, current_paragraph,
                    session, err >>

\* lines 288-290: the retrieval tool raises; st.stop()
DownloadFail ==
    /\ pc = "download"
    /\ pc' = "stopped"
    /\ err' = "download"
    /\ UNCHANGED << input_method, audio_quality, keep_audio, url, uploaded_name,
                    downloads, remote, undeletable, tmp, downloaded_file,
                    audio_file, video_title, source_url, result, now, timestamp,
                    txt_file, srt_file, lyrics_file, transcripts, i,
                    current_paragraph, session >>

NextResolve == StartUrl \/ Download \/ DownloadFail

SpecResolve == InitResolve /\ [][NextResolve]_vars


-----------------------------------------------------------------------------
(* main(): the upload branch, lines 292-316 *)

\* tempfile.NamedTemporaryFile(suffix=Path(name).suffix): a fresh name
TmpName(name) == << "tmpfile" >> \o Suffix(name)

\* lines 300-312: a file is uploaded, the button is pressed, the copy is written
Upload ==
    /\ pc = "start"
    /\ input_method = "upload"
    /\ uploaded_name # << >>
    /\ tmp' = tmp \cup { TmpName(uploaded_name) }
    /\ audio_file' = Some(TmpPath(TmpName(uploaded_name)))
    /\ video_title' = Stem(uploaded_name)
    /\ source_url' = LocalFilePrefix \o uploaded_name
    /\ pc' = "check"
    /\ UNCHANGED << input_method, audio_quality, keep_audio, url, uploaded_name,
                    downloads, remote, undeletable, downloaded_file, result, now,
                    timestamp, txt_file, srt_file, lyrics_file, transcripts, i,
                    current_paragraph, session, err >>

\* lines 314-316: writing the copy raises (the file may already exist); st.stop()
UploadFail ==
    /\ pc = "start"
    /\ input_method = "upload"
    /\ uploaded_name # << >>
    /\ tmp' \in { tmp, tmp \cup { TmpName(uploaded_name) } }
    /\ pc' = "stopped"
    /\ err' = "file"
    /\ UNCHANGED << input_method, audio_quality, keep_audio, url, uploaded_name,
                    downloads, remote, undeletable, downloaded_file, audio_file,
                    video_title, source_url, result, now, timestamp, txt_file,
                    srt_file, lyrics_file, transcripts, i, current_paragraph,
                    session >>

\* lines 279, 303: TranscriberApp(...) raises (the model does not load); st.stop()
StartFail ==
    /\ pc = "start"
    /\ \/ input_method = "url" /\ url # << >>
       \/ input_method = "upload" /\ uploaded_name # << >>
    /\ pc' = "stopped"
    /\ err' = "init"
    /\ UNCHANGED << input_method, audio_quality, keep_audio, url, uploaded_name,
                    downloads, remote, undeletable, tmp, downloaded_file,
                    audio_file, video_title, source_url, result, now, timestamp,
                    txt_file, srt_file, lyrics_file, transcripts, i,
                    current_paragraph, session >>

\* lines 276, 300: no input, or the button is not pressed: audio_file stays None
NoJob ==
    /\ pc = "start"
    /\ pc' = "check"
    /\ UNCHANGED << input_method, audio_quality, keep_audio, url, uploaded_name,
                    downloads, remote, undeletable, tmp, downloaded_file,
                    audio_file, video_title, source_url, result, now, timestamp,
                    txt_file, srt_file, lyrics_file, transcripts, i,
                    current_paragraph, session, err >>

-----------------------------------------------------------------------------
(* main(): transcription, lines 319-363 *)

\* line 319: "if audio_file:"; a Path is true whether or not the file exists
Check ==
    /\ pc = "check"
    /\ pc' = IF audio_file # << >> THEN "transcribe" ELSE "display"
    /\ UNCHANGED << input_method, audio_quality, keep_audio, url, uploaded_name,
                    downloads, remote, undeletable, tmp, downloaded_file,
                    audio_file, video_title, source_url, result, now, timestamp,
                    txt_file, srt_file, lyrics_file, transcripts, i,
                    current_paragraph, session, err >>

\* line 336: the engine reads the file and answers
Transcribe ==
    /\ pc = "transcribe"
    /\ Exists(audio_file[1], downloads, tmp)
    /\ \E r \in Results(JobSegs) : result' = Some(r)
    /\ pc' = "save_names"
    /\ UNCHANGED << input_method, audio_quality, keep_audio, url, uploaded_name,
                    downloads, remote, undeletable, tmp, downloaded_file,
                    audio_file, video_title, source_url, now, timestamp,
                    txt_file, srt_file, lyrics_file, transcripts, i,
                    current_paragraph, session, err >>

\* line 336 raises (always so when the file is missing); caught at line 362
TranscribeFail ==
    /\ pc = "transcribe"
    /\ pc' = "error"
    /\ err' = "engine"
    /\ UNCHANGED << input_method, audio_quality, keep_audio, url, uploaded_name,
                    downloads, remote, undeletable, tmp, downloaded_file,
                    audio_file, video_title, source_url, result, now, timestamp,
                    txt_file, srt_file, lyrics_file, transcripts, i,
                    current_paragraph, session >>

-----------------------------------------------------------------------------
(* save_transcript, lines 90-147, called at line 341 *)

\* lines 92-99
BuildNames ==
    /\ pc = "save_names"
    /\ timestamp' = now
    /\ txt_file' = TxtName(video_title, now)
    /\ srt_file' = SrtName(video_title, now)
    /\ lyrics_file' = LyricsName(video_title, now)
    /\ pc' = "save_txt"
    /\ UNCHANGED << input_method, audio_quality, keep_audio, url, uploaded_name,
                    downloads, remote, undeletable, tmp, downloaded_file,
                    audio_file, video_title, source_url, result, now,
                    transcripts, i, current_paragraph, session, err >>

\* lines 102-108; the clock of line 105 shows this second or the next
SaveTxt ==
    /\ pc = "save_txt"
    /\ \E date \in { now, now + 1 } :
          transcripts' = Put(transcripts, txt_file,
                             TxtLines(video_title, source_url, date, result[1]))
    /\ pc' = "save_srt"
    /\ UNCHANGED << input_method, audio_quality, keep_audio, url, uploaded_name,
                    downloads, remote, undeletable, tmp, downloaded_file,
                    audio_file, video_title, source_url, result, now, timestamp,
                    txt_file, srt_file, lyrics_file, i, current_paragraph,
                    session, err >>

\* open or a write of lines 102-108 raises: the file is absent (n = -1) or
\* holds the first n lines; caught at line 362
SaveTxtFail ==
    /\ pc = "save_txt"
    /\ LET lines == TxtLines(video_title, source_url, now, result[1])
       IN  \E n \in -1 .. (Len(lines) - 1) :
              transcripts' = IF n = -1 THEN transcripts
                             ELSE Put(transcripts, txt_file, Take(lines, n))
    /\ pc' = "error"
    /\ err' = "io_txt"
    /\ UNCHANGED << input_method, audio_quality, keep_audio, url, uploaded_name,
                    downloads, remote, undeletable, tmp, downloaded_file,
                    audio_file, video_title, source_url, result, now, timestamp,
                    txt_file, srt_file, lyrics_file, i, current_paragraph,
                    session >>

\* lines 111-120
SaveSrt ==
    /\ pc = "save_srt"
    /\ transcripts' = Put(transcripts, srt_file,
                          SrtLines(video_title, source_url, result[1]))
    /\ pc' = "save_lyrics"
    /\ UNCHANGED << input_method, audio_quality, keep_audio, url, uploaded_name,
                    downloads, remote, undeletable, tmp, downloaded_file,
                    audio_file, video_title, source_url, result, now, timestamp,
                    txt_file, srt_file, lyrics_file, i, current_paragraph,
                    session, err >>

\* SaveSrtFail with a rollback of the file written before
SaveSrtFailRollback ==
    /\ pc = "save_srt"
    /\ transcripts' = Unlink(transcripts, txt_file)
    /\ pc' = "error"
    /\ err' = "io_srt"
    /\ UNCHANGED << input_method, audio_quality, keep_audio, url, uploaded_name,
                    downloads, remote, undeletable, tmp, downloaded_file,
                    audio_file, video_title, source_url, result, now, timestamp,
                    txt_file, srt_file, lyrics_file, i, current_paragraph,
                    session >>

\* open or a write of lines 111-120 raises; caught at line 362
SaveSrtFail ==
    /\ pc = "save_srt"
    /\ LET lines == SrtLines(video_title, source_url, result[1])
       IN  \E n \in -1 .. (Len(lines) - 1) :
              transcripts' = IF n = -1 THEN transcripts
                             ELSE Put(transcripts, srt_file, Take(lines, n))
    /\ pc' = "error"
    /\ err' = "io_srt"
    /\ UNCHANGED << input_method, audio_quality, keep_audio, url, uploaded_name,
                    downloads, remote, undeletable, tmp, downloaded_file,
                    audio_file, video_title, source_url, result, now, timestamp,
                    txt_file, srt_file, lyrics_file, i, current_paragraph,
                    session >>

\* lines 123-128: the lyrics file is opened, its header written, the buffer emptied
OpenLyrics ==
    /\ pc = "save_lyrics"
    /\ transcripts' = Put(transcripts, lyrics_file,
                          LyricsHeader(video_title, source_url))
    /\ i' = 0
    /\ current_paragraph' = << >>
    /\ pc' = "lyrics_loop"
    /\ UNCHANGED << input_method, audio_quality, keep_audio, url, uploaded_name,
                    downloads, remote, undeletable, tmp, downloaded_file,
                    audio_file, video_title, source_url, result, now, timestamp,
                    txt_file, srt_file, lyrics_file, session, err >>

\* lines 129-145: one iteration of the loop
LyricsStep ==
    /\ pc = "lyrics_loop"
    /\ i < Len(result[1].segments)
    /\ LET segments  == result[1].segments
           text      == Strip(segments[i + 1].text)
           paragraph == Append(current_paragraph, text)
       IN  IF MustFlush(segments, i, paragraph)
           THEN /\ transcripts' = Put(transcripts, lyrics_file,
                                      transcripts[lyrics_file] \o ParagraphLines(paragraph))
                /\ current_paragraph' = << >>
           ELSE /\ current_paragraph' = paragraph
                /\ UNCHANGED transcripts
    /\ i' = i + 1
    /\ UNCHANGED << pc, input_method, audio_quality, keep_audio, url,
                    uploaded_name, downloads, remote, undeletable, tmp,
                    downloaded_file, audio_file, video_title, source_url, result,
                    now, timestamp, txt_file, srt_file, lyrics_file, session, err >>

\* the loop is over: the file is closed and save_transcript returns, line 147
LyricsReturn ==
    /\ pc = "lyrics_loop"
    /\ i = Len(result[1].segments)
    /\ pc' = "store"
    /\ UNCHANGED << input_method, audio_quality, keep_audio, url, uploaded_name,
                    downloads, remote, undeletable, tmp, downloaded_file,
                    audio_file, video_title, source_url, result, now, timestamp,
                    txt_file, srt_file, lyrics_file, transcripts, i,
                    current_paragraph, session, err >>

\* open or a write of lines 123-145 raises: the file stays as written so far;
\* caught at line 362
LyricsFail ==
    /\ pc \in { "save_lyrics", "lyrics_loop" }
    /\ pc' = "error"
    /\ err' = "io_lyrics"
    /\ UNCHANGED << input_method, audio_quality, keep_audio, url, uploaded_name,
                    downloads, remote, undeletable, tmp, downloaded_file,
                    audio_file, video_title, source_url, result, now, timestamp,
                    txt_file, srt_file, lyrics_file, transcripts, i,
                    current_paragraph, session >>

-----------------------------------------------------------------------------
(* main(): session state and cleanup, lines 345-363 *)

\* lines 346-348
Store ==
    /\ pc = "store"
    /\ session' = Some([ transcription_result |-> result[1],
                         transcript_files |-> << txt_file, srt_file, lyrics_file >>,
                         video_title |-> video_title ])
    /\ pc' = "cleanup_url"
    /\ UNCHANGED << input_method, audio_quality, keep_audio, url, uploaded_name,
                    downloads, remote, undeletable, tmp, downloaded_file,
                    audio_file, video_title, source_url, result, now, timestamp,
                    txt_file, srt_file, lyrics_file, transcripts, i,
                    current_paragraph, err >>

\* WantsUrlCleanup without the keep_audio test
WantsUrlCleanupIgnoringKeep ==
    source_url # << >> /\ StartsWith(source_url, Http)

\* line 351
WantsUrlCleanup ==
    ~keep_audio /\ source_url # << >> /\ StartsWith(source_url, Http)

\* lines 351-353: unlink raises when the file system refuses; caught at line 362
CleanupUrl ==
    /\ pc = "cleanup_url"
    /\ IF WantsUrlCleanup /\ Exists(audio_file[1], downloads, tmp)
       THEN IF undeletable
            THEN /\ pc' = "error"
                 /\ err' = "unlink"
                 /\ UNCHANGED << downloads, tmp >>
            ELSE /\ pc' = "cleanup_upload"
                 /\ downloads' = IF audio_file[1].dir = "downloads"
                                 THEN Unlink(downloads, audio_file[1].name)
                                 ELSE downloads
                 /\ tmp' = IF audio_file[1].dir = "tmp"
                           THEN tmp \ { audio_file[1].name } ELSE tmp
                 /\ UNCHANGED err
       ELSE /\ pc' = "cleanup_upload"
            /\ UNCHANGED << downloads, tmp, err >>
    /\ UNCHANGED << input_method, audio_quality, keep_audio, url, uploaded_name,
                    remote, undeletable, downloaded_file, audio_file,
                    video_title, source_url, result, now, timestamp, txt_file,
                    srt_file, lyrics_file, transcripts, i, current_paragraph,
                    session >>

\* lines 356-360: "except: pass" swallows a refused unlink
CleanupUpload ==
    /\ pc = "cleanup_upload"
    /\ IF input_method = "upload" /\ Exists(audio_file[1], downloads, tmp)
          /\ ~undeletable
       THEN /\ downloads' = IF audio_file[1].dir = "downloads"
                            THEN Unlink(downloads, audio_file[1].name)
                            ELSE downloads
            /\ tmp' = IF audio_file[1].dir = "tmp"
                      THEN tmp \ { audio_file[1].name } ELSE tmp
       ELSE UNCHANGED << downloads, tmp >>
    /\ pc' = "display"
    /\ UNCHANGED << input_method, audio_quality, keep_audio, url, uploaded_name,
                    remote, undeletable, downloaded_file, audio_file,
                    video_title, source_url, result, now, timestamp, txt_file,
                    srt_file, lyrics_file, transcripts, i, current_paragraph,
                    session, err >>

\* lines 363-410: the error, if any, is shown; the stored results are displayed
Display ==
    /\ pc \in { "display", "error" }
    /\ pc' = "end"
    /\ UNCHANGED << input_method, audio_quality, keep_audio, url, uploaded_name,
                    downloads, remote, undeletable, tmp, downloaded_file,
                    audio_file, video_title, source_url, result, now, timestamp,
                    txt_file, srt_file, lyrics_file, transcripts, i,
                    current_paragraph, session, err >>

Next ==
    \/ StartUrl \/ Download \/ DownloadFail
    \/ Upload \/ UploadFail \/ StartFail \/ NoJob
    \/ Check \/ Transcribe \/ TranscribeFail
    \/ BuildNames \/ SaveTxt \/ SaveTxtFail \/ SaveSrt \/ SaveSrtFail
    \/ OpenLyrics \/ LyricsStep \/ LyricsReturn \/ LyricsFail
    \/ Store \/ CleanupUrl \/ CleanupUpload \/ Display

Spec == Init /\ [][Next]_vars

-----------------------------------------------------------------------------
(* save_transcript alone: its names for every title of the model, and its   *)
(* lyrics loop for every segment sequence of the model                      *)

\* a URL job whose file was found and transcribed, about to call save_transcript
Transcribed(titles, results, times) ==
    /\ input_method = "url"
    /\ audio_quality = "original"
    /\ keep_audio = FALSE
    /\ undeletable = FALSE
    /\ url = HttpsUrl
    /\ uploaded_name = << >>
    /\ downloads = [ n \in { a_webm } |-> 1 ]
    /\ remote = [ title |-> << >>, filename |-> a_webm, written |-> << >> ]
    /\ tmp = { }
    /\ downloaded_file = a_webm
    /\ audio_file = Some(DownloadsPath(a_webm))
    /\ video_title \in titles
    /\ source_url = HttpsUrl
    /\ result \in { Some(r) : r \in results }
    /\ now \in times
    /\ i = 0
    /\ current_paragraph = << >>
    /\ session = << >>
    /\ err = "none"

InitStem ==
    /\ pc = "save_names"
    /\ Transcribed(Titles, Results(0), Times)
    /\ timestamp = -1
    /\ txt_file = << >> /\ srt_file = << >> /\ lyrics_file = << >>
    /\ transcripts = << >>

NextStem == BuildNames

SpecStem == InitStem /\ [][NextStem]_vars

\* the first two files are written, the third is about to be opened
InitLyrics ==
    /\ pc = "save_lyrics"
    /\ Transcribed(JobTitles, Results(MaxSegs), { 0 })
    /\ timestamp = now
    /\ txt_file = TxtName(video_title, now)
    /\ srt_file = SrtName(video_title, now)
    /\ lyrics_file = LyricsName(video_title, now)
    /\ transcripts =
         Put(Put(<< >>, txt_file, TxtLines(video_title, source_url, now, result[1])),
             srt_file, SrtLines(video_title, source_url, result[1]))

NextLyrics == OpenLyrics \/ LyricsStep \/ LyricsReturn

SpecLyrics == InitLyrics /\ [][NextLyrics]_vars

-----------------------------------------------------------------------------
(* Properties of download_audio, checked under SpecResolve *)

\* the state in which download_audio has just returned to main()
Returned == pc = "check" /\ audio_file # << >>

\* the candidate path as the specification words it
SpecCandidate ==
    IF audio_quality = "aac" THEN Stem(downloaded_file) \o M4aExt ELSE downloaded_file

\* the files the specification's fallback search accepts: the expected stem
\* and an allow-listed extension (compared without regard to case)
Qualifying ==
    { f \in DOMAIN downloads :
        Stem(f) = Stem(downloaded_file) /\ Lower(Suffix(f)) \in AudioExts }

\* C1: when the candidate path does not exist and no file of the directory
\* has the expected stem and an allow-listed extension, download_audio does
\* not return (it fails); whatever it returns exists on disk.
C1_MissingArtifactFails ==
    Returned =>
        /\ ~(SpecCandidate \notin DOMAIN downloads /\ Qualifying = { })
        /\ Exists(audio_file[1], downloads, tmp)

\* C3 as stated: in either quality mode, when the expected path exists
\* download_audio returns exactly the expected path.
C3_ExpectedPathReturned ==
    (Returned /\ downloaded_file \in DOMAIN downloads)
        => audio_file[1] = DownloadsPath(downloaded_file)

\* C3 as amended: when the candidate path (the expected path in original
\* mode, the expected path with the extension .m4a in aac mode) exists,
\* download_audio returns exactly the candidate path, whatever else the
\* directory holds.
C3_CandidatePathReturned ==
    (Returned /\ SpecCandidate \in DOMAIN downloads)
        => audio_file[1] = DownloadsPath(SpecCandidate)

\* aac mode, the candidate differs from the expected path and exists, and
\* the directory holds a later file of the same stem
C3_Witness ==
    /\ Returned
    /\ audio_quality = "aac"
    /\ SpecCandidate # downloaded_file
    /\ SpecCandidate \in DOMAIN downloads
    /\ \E g \in Qualifying : downloads[g] > downloads[SpecCandidate]
    /\ audio_file[1] = DownloadsPath(SpecCandidate)

\* C4: when the candidate path is absent (and a qualifying file exists, so
\* that a file is to be returned), download_audio returns a file of the
\* directory that has the expected stem and an allow-listed extension, and
\* no other such file has a strictly later creation time.
C4_FallbackReturnsLatestMatch ==
    (Returned /\ SpecCandidate \notin DOMAIN downloads /\ Qualifying # { })
        => /\ audio_file[1].dir = "downloads"
           /\ audio_file[1].name \in Qualifying
           /\ \A g \in Qualifying : downloads[g] <= downloads[audio_file[1].name]


-----------------------------------------------------------------------------
(* Properties of the job, checked under Spec *)

AudioOnDisk == audio_file # << >> /\ Exists(audio_file[1], downloads, tmp)

\* C2: in a URL job the engine is invoked only on a file that exists: control
\* stands before the call of transcribe_audio (line 336) only then.
C2_TranscribeOnlyExistingFile ==
    (pc = "transcribe" /\ input_method = "url") => AudioOnDisk

TxtComplete ==
    /\ txt_file \in DOMAIN transcripts
    /\ \E date \in { now, now + 1 } :
          transcripts[txt_file] = TxtLines(video_title, source_url, date, result[1])

SrtComplete ==
    /\ srt_file \in DOMAIN transcripts
    /\ transcripts[srt_file] = SrtLines(video_title, source_url, result[1])

\* the failure is with main(): reported, nothing stored, the job over
ReachedCaller == pc \in { "error", "end" } /\ session = << >>

\* C5: the files are written in the order full text, timestamps, lyrics; when
\* the write of the second or third file fails, the files before it stay
\* persisted and complete, no later file is written, the failed write is not
\* tried again, and the failure reaches main().
C5_NoRollbackNoRetry ==
    /\ srt_file \in DOMAIN transcripts => TxtComplete
    /\ lyrics_file \in DOMAIN transcripts => TxtComplete /\ SrtComplete
    /\ err = "io_srt" =>
          /\ TxtComplete
          /\ ~SrtComplete
          /\ lyrics_file \notin DOMAIN transcripts
          /\ ReachedCaller
    /\ err = "io_lyrics" =>
          /\ TxtComplete
          /\ SrtComplete
          /\ ReachedCaller

\* the second write failed half way and the job is over
C5_Witness ==
    /\ pc = "end"
    /\ err = "io_srt"
    /\ TxtComplete
    /\ srt_file \in DOMAIN transcripts
    /\ Len(transcripts[srt_file]) > 0


LyricsComplete ==
    /\ lyrics_file \in DOMAIN transcripts
    /\ pc \notin { "save_lyrics", "lyrics_loop" }
    /\ err = "none"

\* all three files are saved and the result is in the session state
SavedAndStored ==
    /\ TxtComplete /\ SrtComplete /\ LyricsComplete
    /\ session # << >>
    /\ session[1].transcription_result = result[1]
    /\ session[1].transcript_files = << txt_file, srt_file, lyrics_file >>

\* this step takes the job's audio file off the disk
Removed == AudioOnDisk /\ ~AudioOnDisk'

UrlStartsWithHttp == Len(url) >= 4 /\ SubSeq(url, 1, 4) = << "h", "t", "t", "p" >>

\* a file leaves the disk only in the cleanup, after the save and the store;
\* a failed transcription or save deletes nothing
DeletedOnlyAfterStore ==
    /\ Removed => SavedAndStored /\ pc \in { "cleanup_url", "cleanup_upload" }
    /\ (downloads' # downloads \/ tmp' # tmp) =>
          pc \in { "start", "download", "cleanup_url", "cleanup_upload" }

\* the temporary copy of an upload goes whatever keep_audio says, unless the
\* file system refuses, and then nothing is reported
UploadCopyCleanup ==
    (input_method = "upload" /\ pc = "cleanup_upload" /\ pc' # pc) =>
        /\ Removed <=> ~undeletable
        /\ pc' = "display"
        /\ err' = "none"

\* C10 as stated: the audio file is deleted only after the three files are
\* saved and the result stored; a downloaded file is deleted then if and only
\* if keep_audio is off and the URL starts with "http"; an upload's copy is
\* deleted then regardless of keep_audio and a failure to do so is swallowed;
\* nothing is deleted when transcription or saving fails.
C10_DeletedIffKeepOffAndHttp ==
    [][ /\ DeletedOnlyAfterStore
        /\ UploadCopyCleanup
        /\ (input_method = "url" /\ pc = "cleanup_url" /\ pc' # pc) =>
              (Removed <=> (~keep_audio /\ UrlStartsWithHttp))
        /\ (input_method = "url" /\ pc = "cleanup_upload") => ~Removed
        /\ (input_method = "upload" /\ pc = "cleanup_url") => ~Removed
      ]_vars

\* C10 as amended: as stated, except that the downloaded file is deleted if
\* and only if keep_audio is off, the URL starts with "http" and the file
\* system does not refuse the unlink; a refused unlink of the downloaded file
\* is not swallowed: it reaches main()'s handler and the file stays.
C10_DeletedUnlessUnlinkRefused ==
    [][ /\ DeletedOnlyAfterStore
        /\ UploadCopyCleanup
        /\ (input_method = "url" /\ pc = "cleanup_url" /\ pc' # pc) =>
              /\ Removed <=> (~keep_audio /\ UrlStartsWithHttp /\ ~undeletable)
              /\ (pc' = "error" /\ err' = "unlink")
                    <=> (~keep_audio /\ UrlStartsWithHttp /\ undeletable)
        /\ (input_method = "url" /\ pc = "cleanup_upload") => ~Removed
        /\ (input_method = "upload" /\ pc = "cleanup_url") => ~Removed
      ]_vars

\* a downloaded file has just been deleted, after the save and the store
C10_Witness ==
    /\ input_method = "url"
    /\ pc = "cleanup_upload"
    /\ ~keep_audio /\ UrlStartsWithHttp
    /\ audio_file # << >> /\ ~AudioOnDisk
    /\ SavedAndStored


-----------------------------------------------------------------------------
(* Properties of the lyrics grouping, checked under SpecLyrics *)

\* the paragraphs of a file body: runs of lines, each closed by a blank line
RECURSIVE SplitParagraphs(_, _)
SplitParagraphs(lines, open) ==
    IF lines = << >> THEN (IF open = << >> THEN << >> ELSE << open >>)
    ELSE IF Head(lines) = << >>
         THEN << open >> \o SplitParagraphs(Tail(lines), << >>)
         ELSE SplitParagraphs(Tail(lines), Append(open, Head(lines)))

\* the paragraphs emitted so far: the lyrics file after its four header lines
Paragraphs ==
    LET lines == transcripts[lyrics_file]
    IN  SplitParagraphs(SubSeq(lines, 5, Len(lines)), << >>)

RECURSIVE Flatten(_)
Flatten(ps) == IF ps = << >> THEN << >> ELSE Head(ps) \o Flatten(Tail(ps))

Segments == result[1].segments

Trimmed(n) == [ k \in 1 .. n |-> Strip(Segments[k].text) ]

InLoop == pc = "lyrics_loop"
LoopDone == pc = "store" \/ (pc = "lyrics_loop" /\ i = Len(Segments))

\* the lyrics file ends with the blank line that closes its last paragraph
LastLineBlank ==
    LET lines == transcripts[lyrics_file] IN lines[Len(lines)] = << >>

\* C6: the grouping partitions the segment sequence: the emitted paragraphs,
\* then the pending buffer, are the trimmed texts of the segments processed,
\* in order; every emitted paragraph has 1 to 6 segments; the buffer is empty
\* once the last segment is processed.
C6_GroupingPartitions ==
    (InLoop \/ LoopDone) =>
        /\ Flatten(Paragraphs) \o current_paragraph = Trimmed(i)
        /\ LastLineBlank
        /\ \A p \in DOMAIN Paragraphs :
              1 <= Len(Paragraphs[p]) /\ Len(Paragraphs[p]) <= 6
        /\ LoopDone => /\ current_paragraph = << >>
                       /\ i = Len(Segments)
                       /\ Flatten(Paragraphs) = Trimmed(Len(Segments))

\* eight segments with one long pause, all emitted
C6_Witness ==
    /\ pc = "store"
    /\ Len(Segments) = 8
    /\ Len(Paragraphs) = 3
    /\ Flatten(Paragraphs) = Trimmed(8)

\* the pause after segment k, in half seconds: 3 is 1.5 s
Gap(k) == Segments[k + 1].start - Segments[k].end

NoLongPause == \A k \in 1 .. (Len(Segments) - 1) : Gap(k) <= 3

CeilDiv(n, d) == (n + d - 1) \div d

\* C7: with no gap above 1.5 s, N segments give ceil(N/6) paragraphs, each
\* but possibly the last of exactly 6 segments, in the original order.
C7_SixPerParagraph ==
    (LoopDone /\ NoLongPause) =>
        /\ Len(Paragraphs) = CeilDiv(Len(Segments), 6)
        /\ \A p \in 1 .. (Len(Paragraphs) - 1) : Len(Paragraphs[p]) = 6
        /\ Flatten(Paragraphs) = Trimmed(Len(Segments))

\* seven segments without a long pause: paragraphs of 6 and 1
C7_Witness ==
    /\ pc = "store"
    /\ NoLongPause
    /\ Len(Segments) = 7
    /\ Len(Paragraphs) = 2
    /\ Len(Paragraphs[1]) = 6
    /\ Len(Paragraphs[2]) = 1

\* the number of segments in the first p paragraphs
RECURSIVE SizeUpTo(_, _)
SizeUpTo(ps, p) == IF p = 0 THEN 0 ELSE SizeUpTo(ps, p - 1) + Len(ps[p])

\* the paragraph that holds segment k
ParagraphOf(k) ==
    CHOOSE p \in DOMAIN Paragraphs :
        SizeUpTo(Paragraphs, p - 1) < k /\ k <= SizeUpTo(Paragraphs, p)

\* the place of segment k in its paragraph
PlaceOf(k) == k - SizeUpTo(Paragraphs, ParagraphOf(k) - 1)

\* C8: a gap above 1.5 s between segments k and k+1 always ends the paragraph
\* after k; a gap of at most 1.5 s (1.5 s exactly included) does not: the two
\* are apart only when k is the sixth segment of its paragraph.
C8_PauseEndsParagraph ==
    LoopDone =>
        \A k \in 1 .. (Len(Segments) - 1) :
            /\ Gap(k) > 3 => ParagraphOf(k + 1) = ParagraphOf(k) + 1
            /\ Gap(k) <= 3 =>
                  IF PlaceOf(k) < 6 THEN ParagraphOf(k + 1) = ParagraphOf(k)
                  ELSE ParagraphOf(k + 1) = ParagraphOf(k) + 1

\* a gap of exactly 1.5 s inside a paragraph, and a longer one between two
C8_Witness ==
    /\ pc = "store"
    /\ \E k \in 1 .. (Len(Segments) - 1) :
          Gap(k) = 3 /\ ParagraphOf(k + 1) = ParagraphOf(k)
    /\ \E k \in 1 .. (Len(Segments) - 1) :
          Gap(k) > 3 /\ PlaceOf(k) < 6 /\ ParagraphOf(k + 1) = ParagraphOf(k) + 1


-----------------------------------------------------------------------------
(* Properties of the file names, checked under SpecStem *)

\* letters, digits, the space, the hyphen and the underscore
AllowedChars ==
    { LowerCase[k] : k \in 1 .. 26 } \cup { UpperCase[k] : k \in 1 .. 26 }
        \cup { Digits[k] : k \in 1 .. 10 } \cup OtherLetters \cup { " ", "-", "_" }

Allowed(c) == c \in AllowedChars

RECURSIVE DropDisallowed(_)
DropDisallowed(s) ==
    IF s = << >> THEN << >>
    ELSE (IF Allowed(Head(s)) THEN << Head(s) >> ELSE << >>) \o DropDisallowed(Tail(s))

\* s up to its last character that is not a space
NoTrailingSpace(s) ==
    LET last == IF \E k \in DOMAIN s : s[k] # " "
                THEN CHOOSE k \in DOMAIN s :
                        s[k] # " " /\ \A j \in DOMAIN s : j > k => s[j] = " "
                ELSE 0
    IN  [ k \in 1 .. last |-> s[k] ]

Min(a, b) == IF a < b THEN a ELSE b

First50(s) == [ k \in 1 .. Min(50, Len(s)) |-> s[k] ]

\* a file name without its role suffix and extension
StemOf(name) == SubSeq(name, 1, Len(name) - 1)

\* the stem without "_" and the 15 characters of the time
TitlePart == SubSeq(StemOf(txt_file), 1, Len(StemOf(txt_file)) - 16)

\* C9: the title part of the stem holds only letters, digits, spaces, hyphens
\* and underscores, has at most 50 characters and is the first 50 characters
\* of the title without its disallowed characters and trailing whitespace; the
\* stem's length depends on that filtered title alone; the three file names
\* share the stem.
C9_StemOfTitle ==
    pc = "save_txt" =>
        LET part     == TitlePart
            filtered == NoTrailingSpace(DropDisallowed(video_title))
            stem     == StemOf(txt_file)
        IN  /\ \A k \in DOMAIN part : Allowed(part[k])
            /\ Len(part) <= 50
            /\ part = First50(filtered)
            /\ stem = part \o << "_" >> \o TimestampStr(now)
            /\ Len(stem) = Min(50, Len(filtered)) + 16
            /\ txt_file = stem \o << ".txt" >>
            /\ srt_file = stem \o << "_timestamps.txt" >>
            /\ lyrics_file = stem \o << "_lyrics.txt" >>

\* a title of more than 50 characters, one of them disallowed, whose filtered
\* form is cut at a space
C9_Witness ==
    /\ pc = "save_txt"
    /\ Len(video_title) > 50
    /\ \E k \in DOMAIN video_title : ~Allowed(video_title[k])
    /\ Len(DropDisallowed(video_title)) > 50
    /\ Len(TitlePart) = 50
    /\ TitlePart[50] = " "

=============================================================================
